---- MODULE Spec2Model ----
(***************************************************************************)
(* A model of src/index.tsx: the React application with its four pages     *)
(* (StockScreener, StockAnalyzer, SettingsPage, TrainingPage), the         *)
(* credential kept in localStorage, and the generateContent calls the two  *)
(* feature views have in flight.                                           *)
(*                                                                         *)
(* JavaScript values are tagged records: Null, Str(chars), arrays and      *)
(* objects.  A string is a sequence of characters, so that trim() and the  *)
(* truthiness of a string are computed.  A response text is a sequence of  *)
(* lexemes (white space, a JSON document, junk), so that JSON.parse can    *)
(* fail.                                                                   *)
(***************************************************************************)
EXTENDS Bags, FiniteSets, Integers, Sequences, TLC

VARIABLES
    page,       \* App: useState<Page>('screener')
    view,       \* the useState cells of the component renderPage() has mounted
    store,      \* localStorage.getItem('gemini_api_key'): Null or Str(chars)
    requests,   \* bag of generateContent calls awaiting their response
    timers,     \* pending setTimeout callbacks of handleSave
    crashed,    \* the root was unmounted by an error thrown while rendering
    console,    \* the name of the error console.error logged last
    probe       \* argument and result of a pure function applied on its own

vars == <<page, view, store, requests, timers, crashed, console, probe>>

\* ------------------------------------------------------------------ bounds
MaxInputLen == 1    \* longest text typed into criteria / ticker
MaxStocks == 2      \* longest array of RecommendedStock a response carries
MaxPending == 2     \* generateContent calls in flight at once
MaxTimers == 1      \* setTimeout callbacks pending at once
MaxScore == 105     \* largest score given to getScoreClass on its own
MaxSorted == 3      \* longest array given to handleScreen on its own
MaxRatingLen == 4   \* longest rating string given to getRiskClass on its own

\* ------------------------------------------------------- JavaScript values
Null == [t |-> "null"]
Str(s) == [t |-> "string", chars |-> s]
Arr(items) == [t |-> "array", items |-> items]

\* A test against null alone: '' counts as a credential.
notNull(v) == v.t = "string"

\* !v for the values localStorage.getItem returns: null and '' are falsy.
Truthy(v) == IF v.t = "string" THEN v.chars # <<>> ELSE FALSE

RECURSIVE trimStart(_, _)
trimStart(s, white) ==
    IF s # <<>> /\ Head(s) = white THEN trimStart(Tail(s), white) ELSE s

RECURSIVE trimEnd(_, _)
trimEnd(s, white) ==
    IF s # <<>> /\ s[Len(s)] = white
    THEN trimEnd(SubSeq(s, 1, Len(s) - 1), white)
    ELSE s

\* String.prototype.trim, over a sequence whose white space is `white`.
trimBy(s, white) == trimEnd(trimStart(s, white), white)

\* A test of the raw text: white space counts as input.
noTrim(s) == s

trim(s) == trimBy(s, " ")

SeqsUpTo(S, n) == UNION {[1..k -> S] : k \in 0..n}

Chars == {" ", "a"}
Inputs == SeqsUpTo(Chars, MaxInputLen)      \* e.target.value of the two inputs
KeyInputs == {<<>>, <<"k">>, <<"j">>}       \* e.target.value of the key input

\* --------------------------------------------------------------- messages
MissingCredential == "MissingCredential"    \* the text of lines 94 and 300
EmptyCriteria == "EmptyInput:criteria"      \* the text of line 98
EmptyTicker == "EmptyInput:ticker"          \* the text of line 304
ScreenFailure == "GenerationFailure:screen" \* the text of line 141
AnalyzeFailure == "GenerationFailure:analyze"   \* the text of line 345
SavedMessage == "Saved"                     \* the text of line 501

\* ------------------------------------------------------------------ pages
Pages == {"screener", "analyzer", "settings", "training"}

\* getApiKey(): localStorage.getItem('gemini_api_key')
getApiKey == store

StockScreenerInit ==
    [component |-> "StockScreener", criteria |-> <<>>, loading |-> FALSE,
     error |-> "", screenerResults |-> Null]

StockAnalyzerInit ==
    [component |-> "StockAnalyzer", ticker |-> <<>>, loading |-> FALSE,
     error |-> "", analysis |-> Null]

\* useState('') twice, then the mount effect copies a stored key in.
SettingsPageInit ==
    [component |-> "SettingsPage",
     apiKey |-> IF Truthy(getApiKey) THEN getApiKey.chars ELSE <<>>,
     saveMessage |-> ""]

TrainingPageInit == [component |-> "TrainingPage"]

Unmounted == [component |-> "none"]

\* renderPage(): the component of page p, freshly mounted.
renderPage(p) ==
    CASE p = "screener" -> StockScreenerInit
      [] p = "analyzer" -> StockAnalyzerInit
      [] p = "settings" -> SettingsPageInit
      [] p = "training" -> TrainingPageInit
      [] OTHER -> StockScreenerInit

\* ------------------------------------------------- the remote's responses
Ws == [t |-> "ws"]                  \* a white-space character of a response text
Junk == [t |-> "junk"]              \* text that is not JSON
Doc(v) == [t |-> "doc", value |-> v]    \* the JSON text of the value v

Tickers == {"A", "B"}
Scores == {60, 85}

\* A RecommendedStock; keyMetrics = FALSE is an object without that property.
Stock(ticker, score, keyMetrics) ==
    [t |-> "object", ticker |-> ticker, score |-> score, keyMetrics |-> keyMetrics]

RecommendedStocks == {Stock(k, s, TRUE) : k \in Tickers, s \in Scores}

\* What a misbehaving remote may put in the array besides.
OtherItems == {Null, Stock("A", 85, FALSE)}

EmptyObject == [t |-> "object"]

\* The documents a screening response may carry: the arrays the schema
\* asks for, and null, an object, and short arrays with the other items.
ScreenerDocs ==
    {Null, EmptyObject}
        \cup {Arr(s) : s \in SeqsUpTo(RecommendedStocks, MaxStocks)}
        \cup {Arr(s) : s \in UNION {[1..k -> RecommendedStocks \cup OtherItems] : k \in {1, 2}}}

Ratings == {"risk-high-label", "risk-medium-label", "risk-low-label", "other"}

\* A StockAnalysis; complete = FALSE is an object without a property the
\* report reads (companyProfile, financialSummary, ...).
Analysis(rating, complete) ==
    [t |-> "object", rating |-> rating, complete |-> complete]

AnalyzerDocs ==
    {Null, Arr(<<>>)} \cup {Analysis(r, c) : r \in Ratings, c \in BOOLEAN}

\* The documents also sent between white space, or followed by junk.
Short(docs) == {d \in docs : IF d.t = "array" THEN Len(d.items) <= 1 ELSE TRUE}

TextsOf(docs) ==
    {<<>>, <<Ws>>, <<Junk>>}
        \cup {<<Doc(d)>> : d \in docs}
        \cup {<<Ws, Doc(d), Ws>> : d \in Short(docs)}
        \cup {<<Doc(d), Junk>> : d \in Short(docs)}

\* The outcomes of `await ai.models.generateContent(...)`: the promise is
\* rejected, or fulfilled with a response whose text is undefined or a text.
ResponsesOf(docs) ==
    {[status |-> "rejected"], [status |-> "fulfilled", hasText |-> FALSE]}
        \cup {[status |-> "fulfilled", hasText |-> TRUE, text |-> x] : x \in TextsOf(docs)}

Responses(feature) ==
    IF feature = "screener" THEN ResponsesOf(ScreenerDocs) ELSE ResponsesOf(AnalyzerDocs)

\* JSON.parse: the value of a text that is one document, possibly between
\* white space; anything else is a SyntaxError.
JSONparse(text) ==
    LET body == trimBy(text, Ws)
    IN  IF Len(body) = 1 /\ body[1].t = "doc"
        THEN [ok |-> TRUE, value |-> body[1].value]
        ELSE [ok |-> FALSE]

\* The comparator of an ascending sort.
compareScoreAscending(a, b) == a.score - b.score

\* (a, b) => b.score - a.score
compareScore(a, b) == b.score - a.score

\* x placed into the sorted s after every element it does not precede.
RECURSIVE insertSorted(_, _)
insertSorted(s, x) ==
    IF s = <<>> THEN <<x>>
    ELSE IF compareScore(Head(s), x) > 0 THEN <<x>> \o s
    ELSE <<Head(s)>> \o insertSorted(Tail(s), x)

\* Array.prototype.sort with compareScore: a stable sort.
RECURSIVE sort(_)
sort(items) ==
    IF items = <<>> THEN <<>>
    ELSE insertSorted(sort(SubSeq(items, 1, Len(items) - 1)), items[Len(items)])

\* The comparator reads .score of both arguments: it throws on null, and it
\* is called on every element of an array of two or more.
sortThrows(items) ==
    Len(items) >= 2 /\ \E i \in 1..Len(items) : items[i].t # "object"

\* The thresholds taken as exclusive.
getScoreClassExclusive(score) ==
    IF score > 85 THEN "high"
    ELSE IF score > 60 THEN "medium"
    ELSE "low"

\* getScoreClass(score)
getScoreClass(score) ==
    IF score >= 85 THEN "high"
    ELSE IF score >= 60 THEN "medium"
    ELSE "low"

\* The rating strings of the schema's enum, one element per UTF-16 code
\* unit, each written by its pinyin: U+9AD8 "gao", U+98CE "feng",
\* U+9669 "xian", U+4E2D "zhong", U+7B49 "deng", U+4F4E "di".
HighRisk == <<"gao", "feng", "xian">>
MediumRisk == <<"zhong", "deng", "feng", "xian">>
LowRisk == <<"di", "feng", "xian">>

\* A lookup that ignores white space around the rating.
getRiskClassTrimmed(rating) ==
    IF trim(rating) = HighRisk THEN "risk-high"
    ELSE IF trim(rating) = MediumRisk THEN "risk-medium"
    ELSE IF trim(rating) = LowRisk THEN "risk-low"
    ELSE ""

\* getRiskClass(rating): three === comparisons, then ''
getRiskClass(rating) ==
    IF rating = HighRisk THEN "risk-high"
    ELSE IF rating = MediumRisk THEN "risk-medium"
    ELSE IF rating = LowRisk THEN "risk-low"
    ELSE ""

\* --------------------------------------------------------------- requests
\* A generateContent call in flight: the feature that issued it, the key it
\* was built with, and whether the component whose handler awaits it is still
\* mounted (the handler's setters belong to that component instance).
Request(feature, apiKey, mounted) ==
    [feature |-> feature, apiKey |-> apiKey, mounted |-> mounted]

InFlight == BagCardinality(requests)

\* A submit that sends its call twice.
IssuedTwice(feature, apiKey) ==
    SetToBag({Request(feature, apiKey, TRUE)}) (+) SetToBag({Request(feature, apiKey, TRUE)})

\* The calls one run of a handler issues: the one
\* `await ai.models.generateContent(...)` of its try block.
Issued(feature, apiKey) == SetToBag({Request(feature, apiKey, TRUE)})

\* The calls of b with their components unmounted.
Orphaned(b) ==
    LET dom == {[r EXCEPT !.mounted = FALSE] : r \in BagToSet(b)}
    IN  [o \in dom |-> CopiesIn(o, b) + CopiesIn([o EXCEPT !.mounted = TRUE], b)]

\* The setters act on whichever instance of the feature's view is shown.
AppliesToShown(r) ==
    view.component = (IF r.feature = "screener" THEN "StockScreener" ELSE "StockAnalyzer")

\* Whether the setters a handler calls after its await change anything: they
\* are those of the component instance that ran the handler, and they set
\* nothing once that instance is unmounted.
Applies(r) == r.mounted

\* catch (e) { console.error(e) }: the console after the try block threw
\* `thrown`; only the last error logged is kept.
Logged(thrown) == IF thrown # "none" THEN thrown ELSE console

\* A rejected submit that also drops the result on display.
RejectedClearing(v, message) ==
    [v EXCEPT !.error = message,
              ![IF v.component = "StockScreener" THEN "screenerResults" ELSE "analysis"] = Null]

\* lines 94-95, 98-99 (300-301, 304-305): setError(message); return
Rejected(v, message) == [v EXCEPT !.error = message]

\* <button disabled={loading}>
submitDisabled == view.loading

\* ---------------------------------------------------------- StockScreener
\* A start that leaves the earlier results in place.
ScreenStartedKeepingResults(v) == [v EXCEPT !.loading = TRUE, !.error = ""]

\* lines 101-103: setLoading(true); setError(''); setScreenerResults(null)
ScreenStarted(v) ==
    [v EXCEPT !.loading = TRUE, !.error = "", !.screenerResults = Null]

\* lines 123-135: what the try block throws, "none" when it completes.  A
\* rejected call throws the client's error; reading .trim of an undefined
\* text, .sort of a value that is no array, or .score of null is a TypeError.
ScreenThrown(resp) ==
    IF resp.status = "rejected" THEN "ApiError"
    ELSE IF ~resp.hasText THEN "TypeError"
    ELSE LET parsed == JSONparse(trimBy(resp.text, Ws))
         IN  IF ~parsed.ok THEN "SyntaxError"
             ELSE IF parsed.value.t # "array" THEN "TypeError"
             ELSE IF sortThrows(parsed.value.items) THEN "TypeError"
             ELSE "none"

\* lines 137-144, from the settled await to the end of finally: the view
\* state the handler's setters leave.
ScreenSettled(v, resp) ==
    IF ScreenThrown(resp) # "none"
    THEN [v EXCEPT !.error = ScreenFailure, !.loading = FALSE]
    ELSE [v EXCEPT !.screenerResults =
                       Arr(sort(JSONparse(trimBy(resp.text, Ws)).value.items)),
                   !.loading = FALSE]

\* lines 168-175 and StockCard: rendering reads stock.ticker of every item
\* and stock.keyMetrics.grossMargin of every card.
ScreenerRenderThrows(v) ==
    /\ v.screenerResults.t = "array"
    /\ \E i \in 1..Len(v.screenerResults.items) :
          \/ v.screenerResults.items[i].t # "object"
          \/ ~v.screenerResults.items[i].keyMetrics

\* onChange of the textarea
SetCriteria(s) ==
    /\ ~crashed
    /\ view.component = "StockScreener"
    /\ view' = [view EXCEPT !.criteria = s]
    /\ UNCHANGED <<page, store, requests, timers, crashed, console, probe>>

\* handleScreen, up to its await
HandleScreen ==
    /\ ~crashed
    /\ view.component = "StockScreener"
    /\ ~submitDisabled
    /\ LET apiKey == getApiKey
       IN  IF ~Truthy(apiKey)
           THEN /\ view' = Rejected(view, MissingCredential)
                /\ UNCHANGED requests
           ELSE IF trim(view.criteria) = <<>>
           THEN /\ view' = Rejected(view, EmptyCriteria)
                /\ UNCHANGED requests
           ELSE /\ InFlight < MaxPending
                /\ view' = ScreenStarted(view)
                /\ requests' = requests (+) Issued("screener", apiKey.chars)
    /\ UNCHANGED <<page, store, timers, crashed, console, probe>>

\* handleScreen, from its await on
ScreenResponse(r, resp) ==
    /\ r.feature = "screener"
    /\ BagIn(r, requests)
    /\ console' = Logged(ScreenThrown(resp))
    /\ IF Applies(r)
       THEN LET v == ScreenSettled(view, resp)
            IN  IF ScreenerRenderThrows(v)
                THEN /\ crashed' = TRUE
                     /\ view' = Unmounted
                     /\ requests' = Orphaned(requests (-) SetToBag({r}))
                     /\ timers' = 0
                ELSE /\ view' = v
                     /\ requests' = requests (-) SetToBag({r})
                     /\ UNCHANGED <<crashed, timers>>
       ELSE /\ requests' = requests (-) SetToBag({r})
            /\ UNCHANGED <<view, crashed, timers>>
    /\ UNCHANGED <<page, store, probe>>

\* ---------------------------------------------------------- StockAnalyzer
\* A start that leaves the earlier report in place.
AnalyzeStartedKeepingAnalysis(v) == [v EXCEPT !.loading = TRUE, !.error = ""]

\* lines 307-309: setLoading(true); setError(''); setAnalysis(null)
AnalyzeStarted(v) ==
    [v EXCEPT !.loading = TRUE, !.error = "", !.analysis = Null]

\* lines 331-340: what the try block throws, "none" when it completes.
AnalyzeThrown(resp) ==
    IF resp.status = "rejected" THEN "ApiError"
    ELSE IF ~resp.hasText THEN "TypeError"
    ELSE IF ~JSONparse(trimBy(resp.text, Ws)).ok THEN "SyntaxError"
    ELSE "none"

\* lines 341-348
AnalyzeSettled(v, resp) ==
    IF AnalyzeThrown(resp) # "none"
    THEN [v EXCEPT !.error = AnalyzeFailure, !.loading = FALSE]
    ELSE [v EXCEPT !.analysis = JSONparse(trimBy(resp.text, Ws)).value,
                   !.loading = FALSE]

\* lines 379-481: {analysis && ...} reads analysis.companyProfile.name and
\* the other properties of a truthy value.
AnalyzerRenderThrows(v) ==
    /\ v.analysis # Null
    /\ \/ v.analysis.t # "object"
       \/ ~v.analysis.complete

\* onChange of the ticker input
SetTicker(s) ==
    /\ ~crashed
    /\ view.component = "StockAnalyzer"
    /\ view' = [view EXCEPT !.ticker = s]
    /\ UNCHANGED <<page, store, requests, timers, crashed, console, probe>>

\* handleAnalyze, up to its await
HandleAnalyze ==
    /\ ~crashed
    /\ view.component = "StockAnalyzer"
    /\ ~submitDisabled
    /\ LET apiKey == getApiKey
       IN  IF ~Truthy(apiKey)
           THEN /\ view' = Rejected(view, MissingCredential)
                /\ UNCHANGED requests
           ELSE IF trim(view.ticker) = <<>>
           THEN /\ view' = Rejected(view, EmptyTicker)
                /\ UNCHANGED requests
           ELSE /\ InFlight < MaxPending
                /\ view' = AnalyzeStarted(view)
                /\ requests' = requests (+) Issued("analyzer", apiKey.chars)
    /\ UNCHANGED <<page, store, timers, crashed, console, probe>>

\* handleAnalyze, from its await on
AnalyzeResponse(r, resp) ==
    /\ r.feature = "analyzer"
    /\ BagIn(r, requests)
    /\ console' = Logged(AnalyzeThrown(resp))
    /\ IF Applies(r)
       THEN LET v == AnalyzeSettled(view, resp)
            IN  IF AnalyzerRenderThrows(v)
                THEN /\ crashed' = TRUE
                     /\ view' = Unmounted
                     /\ requests' = Orphaned(requests (-) SetToBag({r}))
                     /\ timers' = 0
                ELSE /\ view' = v
                     /\ requests' = requests (-) SetToBag({r})
                     /\ UNCHANGED <<crashed, timers>>
       ELSE /\ requests' = requests (-) SetToBag({r})
            /\ UNCHANGED <<view, crashed, timers>>
    /\ UNCHANGED <<page, store, probe>>

\* ----------------------------------------------------------- SettingsPage
\* onChange of the key input
SetApiKey(k) ==
    /\ ~crashed
    /\ view.component = "SettingsPage"
    /\ view' = [view EXCEPT !.apiKey = k]
    /\ UNCHANGED <<page, store, requests, timers, crashed, console, probe>>

\* A save that keeps a key already stored.
handleSaveIfAbsent ==
    /\ ~crashed
    /\ view.component = "SettingsPage"
    /\ timers < MaxTimers
    /\ store' = IF store = Null THEN Str(view.apiKey) ELSE store
    /\ view' = [view EXCEPT !.saveMessage = SavedMessage]
    /\ timers' = timers + 1
    /\ UNCHANGED <<page, requests, crashed, console, probe>>

\* handleSave
handleSave ==
    /\ ~crashed
    /\ view.component = "SettingsPage"
    /\ timers < MaxTimers
    /\ store' = Str(view.apiKey)
    /\ view' = [view EXCEPT !.saveMessage = SavedMessage]
    /\ timers' = timers + 1
    /\ UNCHANGED <<page, requests, crashed, console, probe>>

\* () => setSaveMessage(''), 3000 ms later.  timers counts the callbacks of
\* the mounted SettingsPage; those of an unmounted one set nothing.
SaveTimeout ==
    /\ timers > 0
    /\ timers' = timers - 1
    /\ view' = [view EXCEPT !.saveMessage = ""]
    /\ UNCHANGED <<page, store, requests, crashed, console, probe>>

\* -------------------------------------------------------------------- App
\* onClick={() => setPage(p)}: a new page unmounts the component shown and
\* mounts renderPage(p) with fresh state; the same page re-renders nothing.
Navigate(p) ==
    /\ ~crashed
    /\ IF p = page
       THEN UNCHANGED <<page, view, requests, timers>>
       ELSE /\ page' = p
            /\ view' = renderPage(p)
            /\ requests' = Orphaned(requests)
            /\ timers' = 0
    /\ UNCHANGED <<store, crashed, console, probe>>

NoProbe == [fn |-> "none"]

\* The state after root.render(<App />), for each value the browser may
\* already hold under 'gemini_api_key'.
Init ==
    /\ page = "screener"
    /\ store \in {Null} \cup {Str(k) : k \in KeyInputs}
    /\ view = StockScreenerInit
    /\ requests = EmptyBag
    /\ timers = 0
    /\ crashed = FALSE
    /\ console = "none"
    /\ probe = NoProbe

\* A pure function applied on its own: probe holds its argument, and its
\* result once applied.
Probe(fn, arg) == [fn |-> fn, arg |-> arg, out |-> "pending"]

ApplyGetScoreClass ==
    /\ probe.fn = "getScoreClass"
    /\ probe.out = "pending"
    /\ probe' = [probe EXCEPT !.out = getScoreClass(probe.arg)]
    /\ UNCHANGED <<page, view, store, requests, timers, crashed, console>>

InitTier ==
    /\ page = "screener"
    /\ store \in {Null} \cup {Str(k) : k \in KeyInputs}
    /\ view = StockScreenerInit
    /\ requests = EmptyBag
    /\ timers = 0
    /\ crashed = FALSE
    /\ console = "none"
    /\ probe \in {Probe("getScoreClass", s) : s \in 0..MaxScore}

SpecTier == InitTier /\ [][ApplyGetScoreClass]_vars


\* The code units a rating string given to getRiskClass is made of: those of
\* the enum, white space, and Latin letters of both cases.
RatingChars == {"gao", "feng", "xian", "zhong", "deng", "di", " ", "H", "h", "i"}

ApplyGetRiskClass ==
    /\ probe.fn = "getRiskClass"
    /\ probe.out = "pending"
    /\ probe' = [probe EXCEPT !.out = getRiskClass(probe.arg)]
    /\ UNCHANGED <<page, view, store, requests, timers, crashed, console>>

InitRisk ==
    /\ page = "analyzer"
    /\ store \in {Null} \cup {Str(k) : k \in KeyInputs}
    /\ view = StockAnalyzerInit
    /\ requests = EmptyBag
    /\ timers = 0
    /\ crashed = FALSE
    /\ console = "none"
    /\ probe \in {Probe("getRiskClass", s) : s \in SeqsUpTo(RatingChars, MaxRatingLen)}

SpecRisk == InitRisk /\ [][ApplyGetRiskClass]_vars

\* The StockScreener with criteria typed.
SortStart == [StockScreenerInit EXCEPT !.criteria = <<"a">>]

\* handleScreen run on its own, from a click with criteria typed and a key
\* stored to the response in probe.arg: an array of RecommendedStock.
InitSort ==
    /\ page = "screener"
    /\ store \in {Str(k) : k \in KeyInputs \ {<<>>}}
    /\ view = SortStart
    /\ requests = EmptyBag
    /\ timers = 0
    /\ crashed = FALSE
    /\ console = "none"
    /\ probe \in {Probe("handleScreen", Arr(s)) : s \in SeqsUpTo(RecommendedStocks, MaxSorted)}

ClickScreen ==
    /\ probe.fn = "handleScreen"
    /\ HandleScreen

ReceiveArray ==
    /\ probe.fn = "handleScreen"
    /\ \E r \in BagToSet(requests) :
           ScreenResponse(r, [status |-> "fulfilled", hasText |-> TRUE,
                              text |-> <<Doc(probe.arg)>>])

SpecSort == InitSort /\ [][ClickScreen \/ ReceiveArray]_vars

Next ==
    \/ \E s \in Inputs : SetCriteria(s)
    \/ HandleScreen
    \/ \E r \in BagToSet(requests) : \E resp \in Responses(r.feature) : ScreenResponse(r, resp)
    \/ \E s \in Inputs : SetTicker(s)
    \/ HandleAnalyze
    \/ \E r \in BagToSet(requests) : \E resp \in Responses(r.feature) : AnalyzeResponse(r, resp)
    \/ \E k \in KeyInputs : SetApiKey(k)
    \/ handleSave
    \/ SaveTimeout
    \/ \E p \in Pages : Navigate(p)

Spec == Init /\ [][Next]_vars

\* ============================================================ properties
Features == {"screener", "analyzer"}

\* The view is one of the two feature views.
HasForm == view.component \in {"StockScreener", "StockAnalyzer"}

\* The text in the input of the feature view v.
InputOf(v) == IF v.component = "StockScreener" THEN v.criteria ELSE v.ticker

\* The result state of the feature view v.
ResultOf(v) == IF v.component = "StockScreener" THEN v.screenerResults ELSE v.analysis

FeatureOf(v) == IF v.component = "StockScreener" THEN "screener" ELSE "analyzer"

EmptyInputOf(v) == IF v.component = "StockScreener" THEN EmptyCriteria ELSE EmptyTicker

FailureOf(f) == IF f = "screener" THEN ScreenFailure ELSE AnalyzeFailure

\* s is empty or holds white space only.
Blank(s) == \A i \in 1..Len(s) : s[i] = " "

\* No credential: localStorage holds nothing under the key, or ''.
NoCredential == store = Null \/ store = Str(<<>>)

Submit == HandleScreen \/ HandleAnalyze

\* The calls of feature f in flight.
InFlightOf(f) ==
    BagCardinality([r \in {x \in BagToSet(requests) : x.feature = f} |-> requests[r]])

Fulfilled(text) == [status |-> "fulfilled", hasText |-> TRUE, text |-> text]

Settles(r, resp) == ScreenResponse(r, resp) \/ AnalyzeResponse(r, resp)

\* C1: a submit of either view made while no credential is stored (null or
\* '') issues no remote call and sets the missing-credential message,
\* whatever the input holds.
C1_MissingCredential ==
    [][(Submit /\ NoCredential)
          => (requests' = requests /\ view'.error = MissingCredential)]_vars

C1_Witness ==
    /\ view.component = "StockAnalyzer"
    /\ store = Null
    /\ ~Blank(view.ticker)
    /\ view.error = MissingCredential
    /\ InFlight = 0

\* C2 as stated: a submit with a blank input issues no remote call and sets
\* the empty-input message in every state, also with no credential stored.
C2_Original ==
    [][(Submit /\ Blank(InputOf(view)))
          => (requests' = requests /\ view'.error = EmptyInputOf(view))]_vars

\* C2 amended: a submit with a blank input never issues a remote call; it
\* sets the empty-input message when a non-empty credential is stored and
\* the missing-credential message when none is.
C2_BlankInput ==
    [][(Submit /\ Blank(InputOf(view)))
          => /\ requests' = requests
             /\ view'.error =
                    IF NoCredential THEN MissingCredential ELSE EmptyInputOf(view)]_vars

C2_Witness ==
    /\ view.component = "StockScreener"
    /\ ~NoCredential
    /\ view.criteria = <<" ">>
    /\ view.error = EmptyCriteria
    /\ InFlight = 0

\* C3 as stated: each feature has at most one call in flight, and the
\* submit control of a feature view is disabled while a call of its feature
\* is in flight, also after leaving the view and coming back.
C3_OneInFlightPerFeature ==
    /\ \A f \in Features : InFlightOf(f) <= 1
    /\ (~crashed /\ HasForm /\ InFlightOf(FeatureOf(view)) > 0) => submitDisabled

\* The texts of feature f that JSON.parse rejects: junk, or no document.
NotJSON ==
    [f \in Features |->
        {x \in TextsOf(IF f = "screener" THEN ScreenerDocs ELSE AnalyzerDocs) :
            \/ \E i \in 1..Len(x) : x[i] = Junk
            \/ \A i \in 1..Len(x) : x[i] = Ws}]

\* C4: when a call of the mounted view is fulfilled with a text that is not
\* JSON, the view ends with its failure message, a null result and loading
\* false.
C4_UnparseableText ==
    [][\A r \in BagToSet(requests) : \A x \in NotJSON[r.feature] :
          (r.mounted /\ Settles(r, Fulfilled(x)))
              => /\ ~crashed'
                 /\ view'.error = FailureOf(r.feature)
                 /\ ResultOf(view') = Null
                 /\ ~view'.loading]_vars

C4_Witness ==
    /\ view.component = "StockScreener"
    /\ console = "SyntaxError"
    /\ view.error = ScreenFailure
    /\ view.screenerResults = Null
    /\ ~view.loading
    /\ InFlight = 0

\* C6: getScoreClass(s) is 'high' exactly when s >= 85, 'medium' exactly when
\* 60 <= s < 85, and 'low' exactly when s < 60.
C6_ScoreClass ==
    (probe.fn = "getScoreClass" /\ probe.out # "pending")
        => /\ (probe.out = "high") <=> (probe.arg >= 85)
           /\ (probe.out = "medium") <=> (60 <= probe.arg /\ probe.arg < 85)
           /\ (probe.out = "low") <=> (probe.arg < 60)

C6_Witness ==
    /\ probe.fn = "getScoreClass"
    /\ probe.arg = 84
    /\ probe.out = "medium"

\* out holds the items of in, ordered by score non-increasing, the items of
\* equal score in the order they have in `in`.
WithScore(items, sc) ==
    LET Has(x) == x.score = sc IN SelectSeq(items, Has)

IsStableSortOf(out, in) ==
    /\ Len(out) = Len(in)
    /\ \A i \in 1..(Len(out) - 1) : out[i].score >= out[i + 1].score
    /\ \A sc \in Scores : WithScore(out, sc) = WithScore(in, sc)

\* C5: the list displayed for a returned array of stocks is that array
\* sorted by score non-increasing, stably.
C5_StableSort ==
    (probe.fn = "handleScreen" /\ InFlight = 0 /\ view # SortStart)
        => /\ ~crashed
           /\ view.screenerResults.t = "array"
           /\ IsStableSortOf(view.screenerResults.items, probe.arg.items)

C5_Witness ==
    /\ probe.fn = "handleScreen"
    /\ probe.arg.items = <<Stock("B", 60, TRUE), Stock("A", 60, TRUE), Stock("A", 85, TRUE)>>
    /\ view.screenerResults =
           Arr(<<Stock("A", 85, TRUE), Stock("B", 60, TRUE), Stock("A", 60, TRUE)>>)

\* C7: a save stores exactly the string in the key input, over whatever was
\* stored; no other step changes what getApiKey() returns, so the next read
\* returns the string saved last; and an accepted submit builds its call with
\* that string.
C7_CredentialRoundTrip ==
    [][/\ handleSave => getApiKey' = Str(view.apiKey)
       /\ ~handleSave => getApiKey' = getApiKey
       /\ (Submit /\ requests' # requests)
              => /\ getApiKey.t = "string"
                 /\ requests' = requests (+)
                        SetToBag({Request(FeatureOf(view), getApiKey.chars, TRUE)})]_vars

C7_Witness ==
    /\ view.component = "StockScreener"
    /\ store = Str(<<"j">>)
    /\ BagIn(Request("screener", <<"j">>, TRUE), requests)
    /\ BagIn(Request("screener", <<"k">>, FALSE), requests)

\* A step in which the response of a call arrives whose view was left.
DiscardedResponse ==
    \E r \in BagToSet(requests) : ~r.mounted /\ requests' = requests (-) SetToBag({r})

\* C8: the response of a call whose view was left changes neither the page,
\* nor the stored credential, nor the state of the view shown, nor whether
\* the application is rendered.
C8_DiscardedOutcome ==
    [][DiscardedResponse => UNCHANGED <<page, store, view, timers, crashed>>]_vars

C8_Witness ==
    /\ view.component = "StockScreener"
    /\ BagIn(Request("screener", <<"k">>, FALSE), requests)
    /\ view.screenerResults # Null
    /\ ~view.loading

\* A step of a feature view that stays mounted.
StaysMounted == ~crashed /\ HasForm /\ ~crashed' /\ view'.component = view.component

\* C9: within a mounted view a displayed result changes only when a new
\* attempt starts; the start clears it before the call is issued; and no
\* result is displayed while a call of the view is in flight or after the
\* view's last call failed.
C9_ResultCleared ==
    [][/\ (StaysMounted /\ ResultOf(view) # Null /\ ResultOf(view') # ResultOf(view))
              => (Submit /\ InFlight' = InFlight + 1)
       /\ (Submit /\ requests' # requests) => ResultOf(view') = Null
       /\ (StaysMounted /\ (view'.loading \/ view'.error = FailureOf(FeatureOf(view'))))
              => ResultOf(view') = Null]_vars

C9_Witness ==
    /\ view.component = "StockAnalyzer"
    /\ view.error = AnalyzeFailure
    /\ view.analysis = Null
    /\ ~view.loading
    /\ console = "ApiError"

\* C10 as stated: no failure is fatal: the application stays rendered, and
\* the submit control of a feature view is enabled whenever no call of that
\* view is awaited.
C10_NoFailureFatal ==
    /\ ~crashed
    /\ (HasForm /\ \A r \in BagToSet(requests) : ~r.mounted) => ~submitDisabled

\* A step in which a call fails (its error is logged) or the call of the
\* mounted view settles (its loading ends).
CallEnds ==
    \/ console' # console
    \/ StaysMounted /\ view.loading /\ ~view'.loading

\* A click on the enabled submit control of a feature view.
SubmitClick == HasForm /\ ~view.loading /\ Submit

\* The click passes the credential check and the blank-input check.
Accepted == ~NoCredential /\ ~Blank(InputOf(view))

\* C11: a submit that passes the credential check and the blank-input check
\* issues exactly one call; a submit that fails either issues none; no other
\* step adds a call; and a step in which a call ends leaves one call fewer
\* in flight (a failed call is not issued again).
C11_OneCallPerSubmit ==
    [][/\ \/ InFlight' <= InFlight
          \/ /\ SubmitClick
             /\ Accepted
             /\ requests' = requests (+)
                    SetToBag({Request(FeatureOf(view), store.chars, TRUE)})
       /\ SubmitClick
              => IF Accepted THEN InFlight' = InFlight + 1 ELSE requests' = requests
       /\ CallEnds => InFlight' = InFlight - 1]_vars

C11_Witness ==
    /\ view.component = "StockScreener"
    /\ ~Blank(view.criteria)
    /\ view.error = ScreenFailure
    /\ console = "ApiError"
    /\ ~view.loading
    /\ InFlight = 0

\* C12: getRiskClass gives "risk-high" for exactly the rating U+9AD8 U+98CE
\* U+9669, "risk-medium" for exactly U+4E2D U+7B49 U+98CE U+9669, "risk-low"
\* for exactly U+4F4E U+98CE U+9669, and the empty class for every other
\* string (white space around a rating, a Latin label); the three classes are
\* pairwise distinct.
C12_RiskClass ==
    (probe.fn = "getRiskClass" /\ probe.out # "pending") =>
        /\ probe.out = "risk-high" <=> probe.arg = <<"gao", "feng", "xian">>
        /\ probe.out = "risk-medium" <=> probe.arg = <<"zhong", "deng", "feng", "xian">>
        /\ probe.out = "risk-low" <=> probe.arg = <<"di", "feng", "xian">>
        /\ probe.out \in {"risk-high", "risk-medium", "risk-low", ""}
        /\ Cardinality({getRiskClass(r) : r \in {HighRisk, MediumRisk, LowRisk}}) = 3

C12_Witness ==
    /\ probe.fn = "getRiskClass"
    /\ probe.arg = <<" ", "gao", "feng", "xian">>
    /\ probe.out = ""

\* C13: a call that settles while its view stays mounted leaves the view with
\* loading false and in exactly one of two conditions: a non-null result and
\* an empty error, or a non-empty error and a null result.
C13_SuccessOrFailure ==
    [][(StaysMounted /\ view.loading /\ ~view'.loading)
           => \/ ResultOf(view') # Null /\ view'.error = ""
              \/ ResultOf(view') = Null /\ view'.error # ""]_vars

\* C14: a submit rejected by the credential check or by the blank-input check
\* changes nothing but the view's error message, which becomes the message of
\* the failed check: loading stays false, the input text, the displayed
\* result, the stored credential, the page and the calls in flight are as
\* before.
C14_RejectedSubmitFrame ==
    [][(SubmitClick /\ ~Accepted)
           => /\ view'.error = IF NoCredential THEN MissingCredential
                               ELSE EmptyInputOf(view)
              /\ view' = [view EXCEPT !.error = view'.error]
              /\ ~view'.loading
              /\ UNCHANGED <<page, store, requests, timers, crashed, console>>]_vars

\* An earlier result and the message of a rejected submit, shown together.
C14_Witness ==
    /\ ~crashed
    /\ view.component = "StockScreener"
    /\ view.screenerResults # Null
    /\ view.error = EmptyCriteria
    /\ ~view.loading

====
